---- MODULE Spec2Model ----
(***************************************************************************)
(* mempool: a fixed-segment (slab) allocator.  One global object `mem`     *)
(* (mempool.h:166) owns a byte arena cut into per-segment pools of equal   *)
(* cells and a bitmap arena holding, per pool, a group mask word followed  *)
(* by one cell mask word per 32 cells.                                     *)
(*                                                                         *)
(* A 32-bit word is modelled as the set of its 1-bits (a subset of 0..31), *)
(* so 0xFFFFFFFF is 0..31 and 0 is {}.  Addresses are integers; arrays are *)
(* functions over 0..n-1 as in C.                                          *)
(***************************************************************************)
EXTENDS Integers, Sequences, FiniteSets, TLC

(* ------------------------------------------------------------------ *)
(* Bounds of the model                                                *)
(* ------------------------------------------------------------------ *)

\* address operator new[] hands out for the byte arena
BufferBase == 64
\* recursion depth at which the call stack of alloc is taken to be exhausted
StackDepth == 6
\* highest cell index the division check visits
MaxIndex == 260

(* ------------------------------------------------------------------ *)
(* Program constants                                                  *)
(* ------------------------------------------------------------------ *)

\* allocation granularity in bytes and its log2 (build-time macros)
SEGMENT_STEP == 4
SEGMENT_LOG2 == 2

Null == 0

(* ------------------------------------------------------------------ *)
(* Fixed-width integers and 32-bit words                              *)
(* ------------------------------------------------------------------ *)

Uint8(x) == x % 256
Uint16(x) == x % 65536

Min(S) == CHOOSE x \in S : \A y \in S : x <= y

Bits == 0 .. 31
ALL_ONES == Bits

\* Arduino bitSet / bitClear on a 32-bit lvalue
bitSet(w, b) == w \cup ({b} \cap Bits)
bitClear(w, b) == w \ {b}

\* a scan from the wrong end: the highest 0-bit of w instead of the lowest
clz_not(w, u) ==
  IF w = ALL_ONES THEN u ELSE CHOOSE b \in Bits \ w : \A c \in Bits \ w : b >= c

\* __builtin_ctz(~w); w = 0xFFFFFFFF makes the argument 0, which is undefined:
\* `u` is the value the build then produces
ctz_not(w, u) == IF w = ALL_ONES THEN u ELSE Min(Bits \ w)

\* __builtin_ctz(x) for a non-zero size x
RECURSIVE ctz(_)
ctz(x) == IF x % 2 = 1 THEN 0 ELSE 1 + ctz(x \div 2)

\* x & (x - 1) # 0 : x is not a power of two
RECURSIVE NotPow2(_)
NotPow2(x) == IF x <= 1 THEN FALSE ELSE IF x % 2 = 1 THEN TRUE ELSE NotPow2(x \div 2)

\* segment(c, s): count is uint16_t, size is uint8_t
segment(c, s) == [count |-> Uint16(c), size |-> Uint8(s)]

\* _prepare_mask(c): 0xFFFFFFFF << c.  A shift count of 32 or more is
\* undefined; the build either wraps the count to 5 bits or shifts every bit out.
prepare_mask(c, wrap) ==
  IF c = 0 THEN {}
  ELSE IF c < 32 THEN c .. 31
  ELSE IF wrap THEN (c % 32) .. 31
  ELSE {}

(* ------------------------------------------------------------------ *)
(* State                                                              *)
(* ------------------------------------------------------------------ *)

VARIABLES
  mem,     \* the mempool object: its data members
  heap,    \* per array pointer: "null", or the state of the block it points to
  call,    \* the last call: operation, arguments, result, undefined behaviour met
  life,    \* lifecycle the callers have driven the object through
  live,    \* pointers returned by alloc and not yet released
  config,  \* descriptors and count of the begin call that built the tables
  harness, \* position of the calling test procedure
  ctx      \* per execution context: its position inside a call and its locals

vars == <<mem, heap, call, life, live, config, harness, ctx>>

Arrays == {"segment_sizes", "cell_count", "magic_number", "segment_shift",
           "buffer", "pool_buffer", "segment_lookup", "segment_ptr", "pool_ptr"}

\* in-class member initialisers
mempool ==
  [initialized |-> FALSE, buffer |-> Null, buffer_size |-> 0, pool_size |-> 0,
   pool_buffer |-> <<>>, pool_ptr |-> <<>>, segment_ptr |-> <<>>,
   max_segment_size |-> 0, segment_sizes |-> <<>>, cell_count |-> <<>>,
   magic_number |-> <<>>, segment_shift |-> <<>>, segment_count |-> 0,
   segment_lookup |-> <<>>, segment_lookup_count |-> 0]

NoCall ==
  [op |-> "none", arg |-> <<>>, ret |-> Null, path |-> <<>>, pre |-> "fresh",
   sg |-> -1, cell |-> -1, was_live |-> FALSE, faults |-> {}]

\* the calling procedure has not started a scripted run
Idle == [phase |-> "idle", n |-> 0, order |-> "none"]

\* the execution contexts that may call into the object, and one outside a call
Contexts == {1, 2}
NoCtx == [pc |-> "idle", size |-> 0, sg |-> -1, cell |-> -1, ret |-> Null]

Init ==
  /\ mem = mempool
  /\ heap = [a \in Arrays |-> "null"]
  /\ call = NoCall
  /\ life = "fresh"
  /\ live = {}
  /\ config = <<>>
  /\ harness = Idle
  /\ ctx = [c \in Contexts |-> NoCtx]

(* ------------------------------------------------------------------ *)
(* clean                                                              *)
(* ------------------------------------------------------------------ *)

\* delete[] on every non-null pointer; no pointer is reset, _initialized is kept
clean(h) ==
  [heap |-> [a \in Arrays |-> IF h[a] = "null" THEN "null" ELSE "freed"],
   faults |-> IF \E a \in Arrays : h[a] = "freed" THEN {"double_free"} ELSE {}]

(* ------------------------------------------------------------------ *)
(* begin                                                              *)
(* ------------------------------------------------------------------ *)

\* _get_next_segment: index of the first descriptor with the smallest size
\* greater than `current`; 0 when there is none
RECURSIVE get_next_loop(_, _, _, _, _, _)
get_next_loop(arr, count, current, i, find, ret) ==
  IF i >= count THEN ret
  ELSE IF arr[i].size > current /\ arr[i].size < find
       THEN get_next_loop(arr, count, current, i + 1, arr[i].size, i)
       ELSE get_next_loop(arr, count, current, i + 1, find, ret)

get_next_segment(arr, count, current) ==
  get_next_loop(arr, count, current, 0, Uint16(-1), 0)

\* _lookup_segment: first segment whose byte size is at least `size`, else -1
RECURSIVE lookup_loop(_, _, _, _)
lookup_loop(sizes, count, size, i) ==
  IF i >= count THEN -1
  ELSE IF sizes[i] >= size THEN i
  ELSE lookup_loop(sizes, count, size, i + 1)

lookup_segment(sizes, count, size) == lookup_loop(sizes, count, size, 0)

\* number of cell mask words of a pool of c cells
MaskWords(c) == (c + 31) \div 32

\* the selection loop of begin (validation, ordering, size accounting)
RECURSIVE select_loop(_, _, _, _, _)
select_loop(segs, count, i, currentSize, acc) ==
  IF i >= count THEN acc
  ELSE IF segs[i].size = 0 THEN [acc EXCEPT !.ok = FALSE]
  ELSE LET ix == get_next_segment(segs, count, currentSize)
           sz == Uint16(segs[ix].size * SEGMENT_STEP)
       IN IF sz > 64
          THEN [acc EXCEPT !.ok = FALSE, !.sizes = acc.sizes @@ (i :> sz)]
          ELSE select_loop(segs, count, i + 1, segs[ix].size,
                 [ok |-> TRUE,
                  sizes |-> acc.sizes @@ (i :> sz),
                  counts |-> acc.counts @@ (i :> segs[ix].count),
                  buffer_size |-> acc.buffer_size + sz * segs[ix].count,
                  pool_size |-> Uint16(Uint16(acc.pool_size + MaskWords(segs[ix].count)) + 1)])

\* _segment_ptr[i] and _pool_ptr[i]: running sums over the earlier segments
RECURSIVE segment_ptr_at(_, _, _, _)
segment_ptr_at(base, sizes, counts, i) ==
  IF i = 0 THEN base
  ELSE segment_ptr_at(base, sizes, counts, i - 1) + sizes[i - 1] * counts[i - 1]

RECURSIVE pool_ptr_at(_, _)
pool_ptr_at(counts, i) ==
  IF i = 0 THEN 0
  ELSE pool_ptr_at(counts, i - 1) + MaskWords(counts[i - 1]) + 1

\* _magic_number[i] and _segment_shift[i] of a cell size: a fixed-point
\* reciprocal of the size in 4-byte words, or the log2 of a power of two
magic_of(size) ==
  IF NotPow2(size) THEN (65536 + (size \div 4) - 1) \div (size \div 4) ELSE 1
shift_of(size) == IF NotPow2(size) THEN 16 ELSE ctz(size)

\* pool mask initialisation: group mask, then the last cell mask word
RECURSIVE mask_loop(_, _, _, _, _, _)
mask_loop(pool, pp, counts, count, i, wrap) ==
  IF i >= count THEN pool
  ELSE LET g == pp[i]
           l == pp[i] + MaskWords(counts[i])
           p1 == [pool EXCEPT ![g] = prepare_mask(Uint8(MaskWords(counts[i])), wrap)]
           p2 == [p1 EXCEPT ![l] = prepare_mask(counts[i] % 32, wrap)]
       IN mask_loop(p2, pp, counts, count, i + 1, wrap)

\* the six per-segment arrays begin allocates before it validates anything
SegmentArrays == {"segment_sizes", "cell_count", "magic_number", "segment_shift",
                  "segment_ptr", "pool_ptr"}

\* begin(segs, count) on object m with heap h, past its two guards.  u.wrap
\* and u.garbage are the outcomes of the undefined shift and of the read of
\* _segment_sizes[-1].  The nullptr checks after new[] are dead code (new[]
\* does not return null).
begin_build(m, h, segs, count, u) ==
    LET h1 == [a \in Arrays |-> IF a \in SegmentArrays THEN "live" ELSE h[a]]
        sel == select_loop(segs, count, 0, 0,
                 [ok |-> TRUE, sizes |-> <<>>, counts |-> <<>>,
                  buffer_size |-> 0, pool_size |-> m.pool_size])
        m1 == [m EXCEPT !.initialized = TRUE, !.segment_count = count,
                        !.buffer_size = sel.buffer_size, !.pool_size = sel.pool_size,
                        !.segment_sizes = sel.sizes, !.cell_count = sel.counts]
    IN IF ~sel.ok
       THEN LET c == clean(h1)
            IN [mem |-> m1, heap |-> c.heap, ret |-> FALSE, faults |-> c.faults]
       ELSE
         LET max == IF count = 0 THEN u.garbage ELSE sel.sizes[count - 1]
             lc == max \div SEGMENT_STEP
             Idx == 0 .. (count - 1)
             pp == [i \in Idx |-> pool_ptr_at(sel.counts, i)]
             m2 == [m1 EXCEPT
                      !.max_segment_size = max,
                      !.buffer = BufferBase,
                      !.segment_lookup_count = lc,
                      !.segment_lookup =
                         [k \in 0 .. (lc - 1) |->
                            lookup_segment(sel.sizes, count, (k + 1) * SEGMENT_STEP)],
                      !.segment_ptr =
                         [i \in Idx |->
                            segment_ptr_at(BufferBase, sel.sizes, sel.counts, i)],
                      !.pool_ptr = pp,
                      !.magic_number = [i \in Idx |-> magic_of(sel.sizes[i])],
                      !.segment_shift = [i \in Idx |-> shift_of(sel.sizes[i])],
                      !.pool_buffer =
                         mask_loop([k \in 0 .. (sel.pool_size - 1) |-> {}],
                                   pp, sel.counts, count, 0, u.wrap)]
         IN [mem |-> m2,
             heap |-> [a \in Arrays |-> "live"],
             ret |-> TRUE,
             faults |-> IF count = 0 THEN {"oob_read", "oob_write"} ELSE {}]

\* begin without its test of _initialized
begin_unguarded(m, h, segs, count, u) ==
  IF count > 64 THEN [mem |-> m, heap |-> h, ret |-> FALSE, faults |-> {}]
  ELSE begin_build(m, h, segs, count, u)

\* begin(segs, count): the two guards, then the build
begin(m, h, segs, count, u) ==
  IF m.initialized THEN [mem |-> m, heap |-> h, ret |-> FALSE, faults |-> {}]
  ELSE IF count > 64 THEN [mem |-> m, heap |-> h, ret |-> FALSE, faults |-> {}]
  ELSE begin_build(m, h, segs, count, u)

(* ------------------------------------------------------------------ *)
(* alloc                                                              *)
(* ------------------------------------------------------------------ *)

\* reads and writes through a pointer whose block clean has deleted
Dangling(h, arrays) ==
  IF \E a \in arrays : h[a] = "freed" THEN {"use_after_free"} ELSE {}

\* alloc(size).  `depth` counts the recursive calls made so far and `path`
\* the segments they resolved; u.lookup and u.ctz are what the build produces
\* for a lookup read outside the table and for __builtin_ctz(0).
RECURSIVE alloc(_, _, _, _, _, _)
alloc(m, h, size, depth, path, u) ==
  LET fail(f) == [mem |-> m, ret |-> Null, path |-> path, sg |-> -1, cell |-> -1,
                  faults |-> f]
  IN
  IF size > m.max_segment_size THEN fail({})
  ELSE
    LET idx == ((size + SEGMENT_STEP - 1) \div (2 ^ SEGMENT_LOG2)) - 1
        inTable == idx \in DOMAIN m.segment_lookup
        f0 == (IF inTable THEN {}
               ELSE IF h["segment_lookup"] = "null" THEN {"null_deref"}
               ELSE {"oob_read"})
              \cup Dangling(h, {"segment_lookup"})
        sg == Uint8(IF inTable THEN m.segment_lookup[idx] ELSE u.lookup)
    IN
    IF sg >= m.segment_count THEN fail(f0)
    ELSE
      LET f1 == f0 \cup Dangling(h, {"segment_ptr", "pool_ptr", "pool_buffer",
                                     "segment_sizes", "cell_count"})
          gi == m.pool_ptr[sg]
          group == m.pool_buffer[gi]
          path1 == Append(path, sg)
      IN
      \* the per-segment arrays hold nothing for sg (begin failed part-way and
      \* deleted them): the reads below go through wild pointers
      IF sg \notin DOMAIN m.pool_ptr \/ gi \notin DOMAIN m.pool_buffer
      THEN fail(f1 \cup {"wild_read"})
      ELSE
      IF group = ALL_ONES
      THEN IF sg < m.segment_count - 1
           THEN IF depth >= StackDepth
                THEN [fail(f1 \cup {"stack_overflow"}) EXCEPT !.path = path1]
                ELSE LET r == alloc(m, h, m.segment_sizes[sg + 1], depth + 1, path1, u)
                     IN [r EXCEPT !.faults = r.faults \cup f1]
           ELSE [fail(f1) EXCEPT !.path = path1]
      ELSE
        LET pool_index == Uint8(ctz_not(group, u.ctz))
        IN
        IF pool_index >= MaskWords(m.cell_count[sg])
        THEN [fail(f1) EXCEPT !.path = path1]
        ELSE
          LET ci == gi + pool_index + 1
              old == m.pool_buffer[ci]
              cell_index == Uint8(ctz_not(old, u.ctz))
              cell_mask == bitSet(old, cell_index)
              p1 == [m.pool_buffer EXCEPT ![ci] = cell_mask]
              p2 == IF cell_mask = ALL_ONES
                    THEN [p1 EXCEPT ![gi] = bitSet(p1[gi], pool_index)]
                    ELSE p1
          IN [mem |-> [m EXCEPT !.pool_buffer = p2],
              ret |-> m.segment_ptr[sg]
                        + (pool_index * 32 + cell_index) * m.segment_sizes[sg],
              path |-> path1,
              sg |-> sg,
              cell |-> pool_index * 32 + cell_index,
              faults |-> f1 \cup (IF old = ALL_ONES THEN {"ctz_zero"} ELSE {})]

\* the writes of alloc once it has picked cell_index in group pool_index of
\* segment sg: set the cell's bit, and the group's bit if the word is now full
alloc_set(m, sg, pool_index, cell_index) ==
  LET gi == m.pool_ptr[sg]
      ci == gi + pool_index + 1
      cell_mask == bitSet(m.pool_buffer[ci], cell_index)
      p1 == [m.pool_buffer EXCEPT ![ci] = cell_mask]
  IN [m EXCEPT !.pool_buffer =
        IF cell_mask = ALL_ONES
        THEN [p1 EXCEPT ![gi] = bitSet(p1[gi], pool_index)]
        ELSE p1]

(* ------------------------------------------------------------------ *)
(* release                                                            *)
(* ------------------------------------------------------------------ *)

\* the offset-to-cell-index division of release: uint16_t offset, uint8_t result
cell_index_of(size, magic, shift, offset) ==
  IF NotPow2(size)
  THEN Uint8(((Uint16(offset) \div 4) * magic) \div 65536)
  ELSE Uint8(Uint16(offset) \div (2 ^ shift))

\* binary search for the last segment whose base is at or below ptr
\* (uint8_t l, r, m; int8_t sg); -2 stands for a read outside _segment_ptr
RECURSIVE search(_, _, _, _, _)
search(sp, ptr, l, r, sg) ==
  IF l > r THEN sg
  ELSE LET mid == (l + r) \div 2
       IN IF mid \notin DOMAIN sp THEN -2
          ELSE IF ptr < sp[mid] THEN search(sp, ptr, l, Uint8(mid - 1), sg)
          ELSE search(sp, ptr, Uint8(mid + 1), r, mid)

\* release past its guard: find the segment of ptr, clear the cell's bits
release_cell(m, h, ptr) ==
  LET same(f) == [mem |-> m, sg |-> -1, cell |-> -1, faults |-> f]
  IN
    LET f0 == Dangling(h, {"segment_ptr", "pool_ptr", "pool_buffer", "segment_sizes",
                           "magic_number", "segment_shift"})
        sg == search(m.segment_ptr, ptr, 0, Uint8(m.segment_count - 1), -1)
    IN
    IF sg = -2 THEN same(f0 \cup {"oob_read"})
    ELSE IF sg = -1 THEN same(f0)
    ELSE
      LET offset == Uint16(ptr - m.segment_ptr[sg])
          cellIndex == cell_index_of(m.segment_sizes[sg], m.magic_number[sg],
                                     m.segment_shift[sg], offset)
          poolIndex == cellIndex \div 32
          bitIndex == cellIndex % 32
          gi == m.pool_ptr[sg]
          ci == gi + poolIndex + 1
          p1 == [m.pool_buffer EXCEPT ![gi] = bitClear(m.pool_buffer[gi], poolIndex)]
      IN IF ci \notin DOMAIN p1
         THEN [mem |-> [m EXCEPT !.pool_buffer = p1], sg |-> sg, cell |-> cellIndex,
               faults |-> f0 \cup {"oob_write"}]
         ELSE [mem |-> [m EXCEPT !.pool_buffer =
                                   [p1 EXCEPT ![ci] = bitClear(p1[ci], bitIndex)]],
               sg |-> sg, cell |-> cellIndex, faults |-> f0]

\* a guard that lets the address one past the arena through
release_end_inclusive(m, h, ptr) ==
  IF ~m.initialized \/ ptr = Null \/ ptr < m.buffer \/ ptr > m.buffer + m.buffer_size
  THEN [mem |-> m, sg |-> -1, cell |-> -1, faults |-> {}]
  ELSE release_cell(m, h, ptr)

\* release(ptr): the guard, then the cell's bits
release(m, h, ptr) ==
  IF ~m.initialized \/ ptr = Null \/ ptr < m.buffer \/ ptr >= m.buffer + m.buffer_size
  THEN [mem |-> m, sg |-> -1, cell |-> -1, faults |-> {}]
  ELSE release_cell(m, h, ptr)

\* release<T>(T* ptr): its own test of _initialized and null, then release
release_T(m, h, ptr) ==
  IF ~m.initialized \/ ptr = Null
  THEN [mem |-> m, sg |-> -1, cell |-> -1, faults |-> {}]
  ELSE release(m, h, ptr)

(* ------------------------------------------------------------------ *)
(* Callers' inputs                                                    *)
(* ------------------------------------------------------------------ *)

\* indices of the object's segments
Segments(m) == 0 .. (m.segment_count - 1)

\* most segments a caller of the general specification passes
MaxSegments == 2

CellCounts == {0, 1, 2}
SizeUnits == {0, 1, 3, 17}
Descriptors == {segment(c, s) : c \in CellCounts, s \in SizeUnits}
SegArrays(n) == [0 .. (n - 1) -> Descriptors]
RetryArrays(n) == IF n = 1 THEN {0 :> segment(1, 1), 0 :> segment(1, 0)} ELSE {}
AllocSizes == {0, 4, 5, 12, 13}

\* values an out-of-bounds read may produce
GarbageSizes == {0, 8}
GarbageLookup == {-1, 0}
GarbageCtz == {0, 32}

BeginUB(segs, count) ==
  [wrap : IF \E i \in DOMAIN segs : MaskWords(segs[i].count) >= 32
          THEN BOOLEAN ELSE {FALSE},
   garbage : IF count = 0 THEN GarbageSizes ELSE {0}]
\* a cell mask word that is full while its group bit is clear: the only case
\* in which alloc evaluates __builtin_ctz(0)
CtzOfZero(m) ==
  \E sg \in DOMAIN m.pool_ptr : \E g \in 0 .. (MaskWords(m.cell_count[sg]) - 1) :
    /\ m.pool_ptr[sg] + g + 1 \in DOMAIN m.pool_buffer
    /\ m.pool_buffer[m.pool_ptr[sg] + g + 1] = ALL_ONES
    /\ g \notin m.pool_buffer[m.pool_ptr[sg]]
AllocUB(size) ==
  [lookup : IF size = 0 THEN GarbageLookup ELSE {-1},
   ctz : IF CtzOfZero(mem) THEN GarbageCtz ELSE {0}]

(* ------------------------------------------------------------------ *)
(* Actions: one call of a public member function each                 *)
(* ------------------------------------------------------------------ *)

\* what the contract of begin asks of its arguments
ValidArgs(segs, count) ==
  /\ 0 < count /\ count <= 64
  /\ \A i \in 0 .. (count - 1) :
       /\ segs[i].count > 0
       /\ segs[i].size > 0
       /\ segs[i].size * SEGMENT_STEP <= 64

DoBegin(segs, count) ==
  \E u \in BeginUB(segs, count) :
    LET r == begin(mem, heap, segs, count, u)
    IN /\ mem' = r.mem
       /\ heap' = r.heap
       /\ call' = [op |-> "begin",
                   arg |-> [count |-> count, valid |-> ValidArgs(segs, count)],
                   ret |-> r.ret,
                   path |-> <<>>, pre |-> life, sg |-> -1, cell |-> -1,
                   was_live |-> FALSE, faults |-> r.faults]
       /\ life' = IF r.ret THEN "ready"
                  ELSE IF life = "fresh" /\ count <= 64 THEN "failed"
                  ELSE life
       /\ live' = live
       /\ config' = IF mem.initialized \/ count > 64 THEN config ELSE <<segs, count>>

DoAlloc(size) ==
  \E u \in AllocUB(size) :
    LET r == alloc(mem, heap, size, 0, <<>>, u)
    IN /\ mem' = r.mem
       /\ call' = [op |-> "alloc", arg |-> size, ret |-> r.ret, path |-> r.path,
                   pre |-> life, sg |-> r.sg, cell |-> r.cell,
                   was_live |-> r.ret \in live, faults |-> r.faults]
       /\ live' = IF r.ret = Null THEN live ELSE live \cup {r.ret}
       /\ UNCHANGED <<heap, life, config>>

DoRelease(ptr) ==
  LET r == release(mem, heap, ptr)
  IN /\ mem' = r.mem
     /\ call' = [op |-> "release", arg |-> ptr, ret |-> Null, path |-> <<>>,
                 pre |-> life, sg |-> r.sg, cell |-> r.cell,
                 was_live |-> ptr \in live, faults |-> r.faults]
     /\ live' = live \ {ptr}
     /\ UNCHANGED <<heap, life, config>>

DoClean ==
  LET c == clean(heap)
  IN /\ heap' = c.heap
     /\ call' = [op |-> "clean", arg |-> <<>>, ret |-> Null, path |-> <<>>,
                 pre |-> life, sg |-> -1, cell |-> -1, was_live |-> FALSE,
                 faults |-> c.faults]
     /\ life' = "cleaned"
     /\ UNCHANGED <<mem, live, config>>

(* ------------------------------------------------------------------ *)
(* General specification: any caller, small pools                     *)
(* ------------------------------------------------------------------ *)

\* pointers a caller hands to release: the ones it holds, null, the byte
\* below the arena and the byte after it
ReleaseArgs == live \cup {Null, BufferBase - 1, mem.buffer + mem.buffer_size}

\* a caller configures a fresh object with any descriptors; on an object it
\* has already driven through begin it retries with one of a few
Begin ==
  /\ \E n \in 0 .. MaxSegments :
       \E segs \in (IF life = "fresh" THEN SegArrays(n) ELSE RetryArrays(n)) :
         DoBegin(segs, n)
  /\ UNCHANGED <<harness, ctx>>

BeginTooMany ==
  /\ DoBegin(<<>>, 65)
  /\ UNCHANGED <<harness, ctx>>

Alloc ==
  /\ \E size \in AllocSizes : DoAlloc(size)
  /\ UNCHANGED <<harness, ctx>>

Release ==
  /\ \E ptr \in ReleaseArgs : DoRelease(ptr)
  /\ UNCHANGED <<harness, ctx>>

\* the same pointers handed to the template entry point release<T>
ReleaseT ==
  /\ \E ptr \in ReleaseArgs :
       LET r == release_T(mem, heap, ptr)
       IN /\ mem' = r.mem
          /\ call' = [op |-> "release", arg |-> ptr, ret |-> Null, path |-> <<>>,
                      pre |-> life, sg |-> r.sg, cell |-> r.cell,
                      was_live |-> ptr \in live, faults |-> r.faults]
          /\ live' = live \ {ptr}
          /\ UNCHANGED <<heap, life, config>>
  /\ UNCHANGED <<harness, ctx>>

Clean ==
  /\ DoClean
  /\ UNCHANGED <<harness, ctx>>

Next == Begin \/ BeginTooMany \/ Alloc \/ Release \/ ReleaseT \/ Clean

Spec == Init /\ [][Next]_vars

(* ------------------------------------------------------------------ *)
(* Exhaustive allocation: one segment, consecutive allocs of its size *)
(* ------------------------------------------------------------------ *)

FillCounts == {1, 2, 33, 8193, 9217}
FillSizes == {1, 3}

FillBegin ==
  /\ harness.phase = "idle" /\ life = "fresh"
  /\ \E c \in FillCounts : \E s \in FillSizes : DoBegin(0 :> segment(c, s), 1)
  /\ harness' = [phase |-> "fill", n |-> 0, order |-> "none"]
  /\ UNCHANGED ctx

\* the caller stops at the first alloc that returns null
FillAlloc ==
  /\ harness.phase = "fill"
  /\ ~(call.op = "alloc" /\ call.ret = Null)
  /\ DoAlloc(mem.segment_sizes[0])
  /\ harness' = [harness EXCEPT !.n = harness.n + 1]
  /\ UNCHANGED ctx

NextFill == FillBegin \/ FillAlloc

SpecFill == Init /\ [][NextFill]_vars

(* ------------------------------------------------------------------ *)
(* Round trip: fill every pool, release everything, fill again        *)
(* ------------------------------------------------------------------ *)

RoundConfigs ==
  { 0 :> segment(3, 1),
    0 :> segment(33, 3),
    0 :> segment(257, 1),
    (0 :> segment(2, 3)) @@ (1 :> segment(2, 1)) }

Max(S) == CHOOSE x \in S : \A y \in S : x >= y

RoundBegin ==
  /\ harness.phase = "idle" /\ life = "fresh"
  /\ \E segs \in RoundConfigs : DoBegin(segs, Cardinality(DOMAIN segs))
  /\ harness' = [phase |-> "fill", n |-> 0, order |-> "none"]
  /\ UNCHANGED ctx

\* allocate cells of any segment's size until an alloc returns null
RoundFill ==
  /\ harness.phase \in {"fill", "refill"}
  /\ ~(call.op = "alloc" /\ call.ret = Null)
  /\ \E sg \in Segments(mem) : DoAlloc(mem.segment_sizes[sg])
  /\ harness' = [harness EXCEPT !.n = harness.n + 1]
  /\ UNCHANGED ctx

\* once the pools are exhausted, release every pointer held, in ascending or
\* in descending address order
RoundDrain ==
  /\ live # {}
  /\ \/ /\ harness.phase = "fill" /\ call.op = "alloc" /\ call.ret = Null
        /\ \E o \in {"asc", "desc"} :
             harness' = [phase |-> "drain", n |-> 0, order |-> o]
     \/ /\ harness.phase = "drain"
        /\ harness' = harness
  /\ DoRelease(IF harness'.order = "asc" THEN Min(live) ELSE Max(live))
  /\ UNCHANGED ctx

\* with nothing held any more, start allocating again
RoundAgain ==
  /\ harness.phase = "drain" /\ live = {}
  /\ \E sg \in Segments(mem) : DoAlloc(mem.segment_sizes[sg])
  /\ harness' = [phase |-> "refill", n |-> 1, order |-> harness.order]
  /\ UNCHANGED ctx

NextRound == RoundBegin \/ RoundFill \/ RoundDrain \/ RoundAgain

SpecRound == Init /\ [][NextRound]_vars

(* ------------------------------------------------------------------ *)
(* Division: the index release recovers from a cell's offset          *)
(* ------------------------------------------------------------------ *)

\* cell sizes begin accepts, in units of SEGMENT_STEP
DivUnits == 1 .. 16

Divide ==
  /\ harness.phase = "idle" /\ call = NoCall
  /\ \E s \in DivUnits : \E i \in 0 .. MaxIndex :
       LET size == s * SEGMENT_STEP
       IN call' = [NoCall EXCEPT
                     !.op = "cell_index_of",
                     !.arg = [size |-> size, index |-> i],
                     !.cell = cell_index_of(size, magic_of(size), shift_of(size),
                                            i * size)]
  /\ UNCHANGED <<mem, heap, life, live, config, harness, ctx>>

SpecDiv == Init /\ [][Divide]_vars

(* ------------------------------------------------------------------ *)
(* Free use: one of a few layouts, then allocs and releases in any    *)
(* order                                                              *)
(* ------------------------------------------------------------------ *)

\* four 4-byte cells and two 16-byte cells, in either descriptor order
ExampleConfigs ==
  { (0 :> segment(4, 1)) @@ (1 :> segment(2, 4)),
    (0 :> segment(2, 4)) @@ (1 :> segment(4, 1)) }

\* the layouts of the free-use callers: the example, a pool of two groups
\* with a cell size that is no power of two, and three descriptors of which
\* two have the same size
UseConfigs ==
  ExampleConfigs \cup
  { 0 :> segment(33, 3),
    (0 :> segment(1, 1)) @@ (1 :> segment(1, 3)) @@ (2 :> segment(1, 3)) }

UseSizes == {1, 4, 5, 12, 16, 17}

\* in an arena of more bytes than MaxArena the caller releases only the lowest
\* or the highest pointer it holds, and at most MaxReleases times
MaxArena == 48
MaxReleases == 3

UseBegin ==
  /\ harness.phase = "idle" /\ life = "fresh"
  /\ \E segs \in UseConfigs : DoBegin(segs, Cardinality(DOMAIN segs))
  /\ harness' = [phase |-> "use", n |-> 0, order |-> "none"]
  /\ UNCHANGED ctx

UseAlloc ==
  /\ harness.phase = "use"
  /\ \E size \in UseSizes : DoAlloc(size)
  /\ UNCHANGED <<harness, ctx>>

UseRelease ==
  /\ harness.phase = "use"
  /\ live # {}
  /\ IF mem.buffer_size <= MaxArena
     THEN /\ \E ptr \in live : DoRelease(ptr)
          /\ UNCHANGED harness
     ELSE /\ harness.n < MaxReleases
          /\ \E ptr \in {Min(live), Max(live)} : DoRelease(ptr)
          /\ harness' = [harness EXCEPT !.n = harness.n + 1]
  /\ UNCHANGED ctx

NextUse == UseBegin \/ UseAlloc \/ UseRelease

SpecUse == Init /\ [][NextUse]_vars

(* ------------------------------------------------------------------ *)
(* Concurrent callers: two execution contexts call alloc and release  *)
(* with nothing between them.  alloc takes no lock (_mutex is never   *)
(* taken), so a context can be preempted between the reads that pick  *)
(* a cell and the writes that mark it.                                *)
(* ------------------------------------------------------------------ *)

ConcConfigs ==
  { 0 :> segment(2, 1),
    (0 :> segment(1, 1)) @@ (1 :> segment(1, 3)) }

ConcSizes == {4, 12}

ConcBegin ==
  /\ harness.phase = "idle" /\ life = "fresh"
  /\ \E segs \in ConcConfigs : DoBegin(segs, Cardinality(DOMAIN segs))
  /\ harness' = [phase |-> "conc", n |-> 0, order |-> "none"]
  /\ UNCHANGED ctx

\* context c enters alloc and runs its reads: size check, lookup, group mask,
\* cell mask, the two bit scans (and the retries on full pools)
AllocScan(c) ==
  /\ harness.phase = "conc" /\ ctx[c].pc = "idle"
  /\ \E size \in ConcSizes : \E u \in AllocUB(size) :
       LET r == alloc(mem, heap, size, 0, <<>>, u)
       IN ctx' = [ctx EXCEPT ![c] =
                    [pc |-> IF r.ret = Null THEN "returned" ELSE "scanned",
                     size |-> size, sg |-> r.sg, cell |-> r.cell, ret |-> r.ret]]
  /\ UNCHANGED <<mem, heap, call, life, live, config, harness>>

\* context c runs the writes of alloc on the cell it picked and returns
AllocSet(c) ==
  /\ harness.phase = "conc" /\ ctx[c].pc = "scanned"
  /\ mem' = alloc_set(mem, ctx[c].sg, ctx[c].cell \div 32, ctx[c].cell % 32)
  /\ call' = [op |-> "alloc", arg |-> ctx[c].size, ret |-> ctx[c].ret,
              path |-> <<ctx[c].sg>>, pre |-> life, sg |-> ctx[c].sg,
              cell |-> ctx[c].cell, was_live |-> ctx[c].ret \in live, faults |-> {}]
  /\ live' = live \cup {ctx[c].ret}
  /\ ctx' = [ctx EXCEPT ![c].pc = "returned"]
  /\ UNCHANGED <<heap, life, config, harness>>

\* context c gives back what its alloc returned
ConcRelease(c) ==
  /\ harness.phase = "conc" /\ ctx[c].pc = "returned"
  /\ DoRelease(ctx[c].ret)
  /\ ctx' = [ctx EXCEPT ![c] = NoCtx]
  /\ UNCHANGED harness

NextConc ==
  \/ ConcBegin
  \/ \E c \in Contexts : AllocScan(c)
  \/ \E c \in Contexts : AllocSet(c)
  \/ \E c \in Contexts : ConcRelease(c)

SpecConc == Init /\ [][NextConc]_vars

(* ------------------------------------------------------------------ *)
(* Vocabulary of the properties                                       *)
(* ------------------------------------------------------------------ *)

\* cells of segment sg whose bit is 0 in the pool's cell masks
FreeCells(m, sg) ==
  {c \in 0 .. (m.cell_count[sg] - 1) :
     (c % 32) \notin m.pool_buffer[m.pool_ptr[sg] + (c \div 32) + 1]}

\* segments able to hold `size` bytes
Fitting(m, size) == {sg \in Segments(m) : m.segment_sizes[sg] >= size}

\* the fitting segments of the smallest cell size
SmallestFitting(m, size) ==
  {sg \in Fitting(m, size) :
     \A t \in Fitting(m, size) : m.segment_sizes[sg] <= m.segment_sizes[t]}

\* the object holds tables built by a successful begin and not cleaned since
Usable == life = "ready" /\ mem.initialized /\ mem.segment_count > 0

\* the tables were built from descriptors that meet the contract of begin
ValidConfig == config # <<>> /\ ValidArgs(config[1], config[2])

Rearrangements(n) ==
  {f \in [0 .. (n - 1) -> 0 .. (n - 1)] : \A i, j \in 0 .. (n - 1) : f[i] = f[j] => i = j}

(* ------------------------------------------------------------------ *)
(* Properties                                                         *)
(* ------------------------------------------------------------------ *)

\* C3: a begin that fails on an invalid descriptor (size 0, or more than 64
\* bytes) leaves the object uninitialized: a following begin with valid
\* descriptors succeeds, and no storage of the failed attempt is deleted twice.
C3_FailedBeginLeavesNothing ==
  /\ life = "failed" => ~mem.initialized
  /\ (call.op = "begin" /\ call.pre = "failed" /\ call.arg.valid) => call.ret = TRUE
  /\ (call.op = "clean" /\ call.pre = "failed") => "double_free" \notin call.faults

\* C4: begin with count = 0 or count > 64 returns failure, leaves the object
\* uninitialized and touches no element of a per-segment array.
C4_CountRangeChecked ==
  (call.op = "begin" /\ call.pre = "fresh"
     /\ (call.arg.count = 0 \/ call.arg.count > 64))
  => /\ call.ret = FALSE
     /\ ~mem.initialized
     /\ call.faults \cap {"oob_read", "oob_write"} = {}

\* C5: begin fails when a descriptor has a cell count of 0, so no initialized
\* allocator holds a pool of zero cells.
C5_NoEmptyPool ==
  /\ (call.op = "begin" /\ call.pre = "fresh" /\ config # <<>>
        /\ \E i \in 0 .. (config[2] - 1) : config[1][i].count = 0)
     => call.ret = FALSE
  /\ Usable => \A sg \in Segments(mem) : mem.cell_count[sg] > 0

\* C6: after a successful begin the stored byte sizes are strictly increasing
\* by index and the stored table is a rearrangement of the input descriptors,
\* each with its own cell count, whatever the input order and also when two
\* descriptors have the same size.
C6_StrictlyIncreasingTable ==
  (call.op = "begin" /\ call.ret = TRUE /\ ValidConfig)
  => /\ \A i, j \in Segments(mem) : i < j => mem.segment_sizes[i] < mem.segment_sizes[j]
     /\ \E f \in Rearrangements(config[2]) :
          \A i \in Segments(mem) :
            /\ mem.segment_sizes[i] = config[1][f[i]].size * SEGMENT_STEP
            /\ mem.cell_count[i] = config[1][f[i]].count

\* C7: every alloc call ends after at most segment-count retries: each retry on
\* an exhausted pool resolves a segment of strictly greater index.
C7_EscalationEnds ==
  (call.op = "alloc" /\ call.pre = "ready" /\ ValidConfig /\ call.arg >= 1)
  => /\ "stack_overflow" \notin call.faults
     /\ Len(call.path) <= mem.segment_count + 1
     /\ \A i, j \in 1 .. Len(call.path) : i < j => call.path[i] < call.path[j]

\* the segments with a free cell whose cell size is the smallest one above
\* that of the smallest fitting segment
EscalationTargets(m, size) ==
  LET larger == {t \in Segments(m) :
                   /\ \A sg \in SmallestFitting(m, size) :
                        m.segment_sizes[t] > m.segment_sizes[sg]
                   /\ FreeCells(m, t) # {}}
  IN {t \in larger : \A t2 \in larger : m.segment_sizes[t] <= m.segment_sizes[t2]}

\* the request fits a segment, every smallest fitting segment is full and a
\* larger segment has a free cell
EscalationCase(m, size) ==
  /\ size >= 1
  /\ SmallestFitting(m, size) # {}
  /\ \A sg \in SmallestFitting(m, size) : FreeCells(m, sg) = {}
  /\ EscalationTargets(m, size) # {}

\* C8: when the smallest segment fitting a request has no free cell and a
\* strictly larger segment has one, alloc returns a cell of the nearest larger
\* segment that has a free cell.
C8_Escalation ==
  [][(Usable /\ call'.op = "alloc" /\ EscalationCase(mem, call'.arg))
       => (call'.ret # Null /\ call'.sg \in EscalationTargets(mem, call'.arg))]_vars

\* C9: clean returns the object to the uninitialized state: afterwards release
\* does nothing, begin with valid descriptors succeeds, and another clean
\* deletes no storage a second time.
C9_CleanUninitializes ==
  (config = <<>> \/ ValidConfig)
  => /\ life = "cleaned" => ~mem.initialized
     /\ (call.op = "begin" /\ call.pre = "cleaned" /\ call.arg.valid) => call.ret = TRUE
     /\ (call.op = "release" /\ call.pre = "cleaned")
          => call.sg = -1 /\ call.faults = {}
     /\ (call.op = "clean" /\ call.pre = "cleaned") => "double_free" \notin call.faults

\* C1: with a single segment of N cells, each of the first N consecutive allocs
\* of the cell size returns a non-null address, distinct from and not
\* overlapping the earlier ones, and alloc number N + 1 returns null.
C1_ExhaustiveAllocation ==
  (harness.phase = "fill" /\ call.op = "alloc")
  => LET N == config[1][0].count
         size == mem.segment_sizes[0]
     IN /\ harness.n <= N => call.ret # Null
        /\ harness.n = N + 1 => call.ret = Null
        /\ Cardinality(live) = (IF harness.n <= N THEN harness.n ELSE N)
        /\ \A p, q \in live : p # q => (p + size <= q \/ q + size <= p)
        /\ \A p \in live : mem.buffer <= p /\ p + size <= mem.buffer + mem.buffer_size

\* what begin leaves in the bitmap arena: every cell of every pool free
FreshPool(m) ==
  mask_loop([k \in DOMAIN m.pool_buffer |-> {}], m.pool_ptr, m.cell_count,
            m.segment_count, 0, FALSE)

\* C2: once every pointer alloc returned has been released, each pool's set
\* of free cells is the one it had before the allocations.
C2_RoundTrip ==
  (Usable /\ live = {}) => \A sg \in Segments(mem) :
                             FreeCells(mem, sg) = FreeCells([mem EXCEPT !.pool_buffer = FreshPool(mem)], sg)

\* C10: for every cell size from 4 to 64 bytes and every cell index i, the
\* index release recovers from the offset i * cellSize is i.
C10_DivisionEquivalence ==
  call.op = "cell_index_of" => call.cell = call.arg.index

\* the largest cell size of the stored segment table
LargestSize(m) == Max({m.segment_sizes[sg] : sg \in Segments(m)})

\* C11: after a successful begin, alloc(size) with 1 <= size <= largest segment
\* size returns null exactly when no segment whose cell size is at least size
\* has a free cell; alloc of more than the largest segment size returns null;
\* an alloc that returns null leaves every bitmap word as it was.
C11_NullIffNothingFree ==
  [][(Usable /\ call'.op = "alloc")
       => /\ (1 <= call'.arg /\ call'.arg <= LargestSize(mem))
               => ((call'.ret = Null)
                     <=> (\A sg \in Fitting(mem, call'.arg) : FreeCells(mem, sg) = {}))
          /\ call'.arg > LargestSize(mem) => call'.ret = Null
          /\ call'.ret = Null => mem'.pool_buffer = mem.pool_buffer]_vars

\* in the example layout: the indices of the 4-byte and of the 16-byte cells
\* the caller does not hold
ExampleFree4 == {i \in 0 .. 3 : BufferBase + 4 * i \notin live}
ExampleFree16 == {j \in 0 .. 1 : BufferBase + 16 + 16 * j \notin live}

\* C12: a successful alloc returns base + i * cellSize, i the lowest-index free
\* cell of the segment it allocates from; with four 4-byte cells and two
\* 16-byte cells alloc(4) returns the lowest 4-byte cell not held (base+0, +4,
\* +8, +12 in turn, base+8 again once it was released) and the first free
\* 16-byte cell once the four are held.
C12_LowestFreeCell ==
  [][/\ (Usable /\ call'.op = "alloc" /\ call'.ret # Null)
          => /\ call'.sg \in Segments(mem)
             /\ FreeCells(mem, call'.sg) # {}
             /\ call'.cell = Min(FreeCells(mem, call'.sg))
             /\ call'.ret = mem.segment_ptr[call'.sg]
                              + Min(FreeCells(mem, call'.sg)) * mem.segment_sizes[call'.sg]
     /\ (Usable /\ call'.op = "alloc" /\ call'.arg = 4 /\ config[1] \in ExampleConfigs)
          => call'.ret = (IF ExampleFree4 # {} THEN BufferBase + 4 * Min(ExampleFree4)
                          ELSE IF ExampleFree16 # {}
                               THEN BufferBase + 16 + 16 * Min(ExampleFree16)
                          ELSE Null)]_vars

\* the example's last step: base+8 handed out again while base+12 and the
\* first 16-byte cell are held
C12_Witness ==
  /\ Usable /\ config[1] \in ExampleConfigs
  /\ call.op = "alloc" /\ call.arg = 4 /\ call.ret = BufferBase + 8
  /\ live = {BufferBase, BufferBase + 4, BufferBase + 8, BufferBase + 12, BufferBase + 16}

\* the first byte of the arena and the byte after its last cell, as the
\* segment table lays the pools out
ArenaFirst(m) == m.segment_ptr[0]
ArenaEnd(m) ==
  LET last == m.segment_count - 1
  IN m.segment_ptr[last] + m.segment_sizes[last] * m.cell_count[last]

\* the calls release has to ignore
Ignored(m, ptr) ==
  \/ ~m.initialized
  \/ ptr = Null
  \/ Usable /\ (ptr < ArenaFirst(m) \/ ptr >= ArenaEnd(m))

\* C13: release on an uninitialized object (_initialized false), with a null
\* pointer, with a pointer below the arena's first byte or with one at or
\* beyond the arena's end changes no bitmap word and no other allocator state.
C13_ReleaseIgnores ==
  [][(call'.op = "release" /\ Ignored(mem, call'.arg))
       => (mem' = mem /\ heap' = heap /\ call'.sg = -1 /\ call'.faults = {})]_vars

\* a release of the address just past the arena while cells are held
C13_Witness ==
  /\ Usable /\ live # {}
  /\ call.op = "release" /\ call.arg = ArenaEnd(mem) /\ call.sg = -1

\* C14: begin on an already-initialized object returns failure and changes
\* nothing: segment table, lookup table, arena layout, every bitmap word and
\* the set of live allocations are the same before and after the call.
C14_BeginOnInitialized ==
  [][(call'.op = "begin" /\ mem.initialized)
       => (call'.ret = FALSE /\ mem' = mem /\ heap' = heap /\ live' = live
             /\ call'.faults = {})]_vars

\* a second begin on a working allocator that has cells handed out
C14_Witness ==
  /\ Usable /\ live # {}
  /\ call.op = "begin" /\ call.pre = "ready" /\ call.ret = FALSE

\* C15: contexts that do not coordinate may call alloc and release
\* concurrently: each call holds the object's lock from entry to return, so
\* the reads and the writes of two alloc calls do not interleave and two
\* calls that have both returned a cell hold different cells.
C15_CallsSerialized ==
  \A a, b \in Contexts :
    (a # b /\ ctx[a].pc = "returned" /\ ctx[b].pc = "returned" /\ ctx[a].ret # Null)
    => ctx[a].ret # ctx[b].ret

\* the group mask of a pool and the cell mask word of its group g
GroupMask(m, sg) == m.pool_buffer[m.pool_ptr[sg]]
CellMask(m, sg, g) == m.pool_buffer[m.pool_ptr[sg] + g + 1]

\* the groups of a pool: one per cell mask word
Groups(m, sg) == 0 .. (MaskWords(m.cell_count[sg]) - 1)

\* C16: in every state reached after a successful begin by alloc calls and
\* release calls on pointers alloc returned, for every pool and every group g
\* of it, bit g of the group mask is 1 exactly when all 32 bits of cell mask
\* word g are 1.
C16_GroupMaskInvariant ==
  Usable => \A sg \in Segments(mem) : \A g \in Groups(mem, sg) :
              (g \in GroupMask(mem, sg)) <=> (CellMask(mem, sg, g) = ALL_ONES)

\* the bits of a pool's last cell mask word that stand for no cell, and the
\* bits of its group mask that stand for no group
CellPadding(m, sg) == (m.cell_count[sg] - 32 * (MaskWords(m.cell_count[sg]) - 1)) .. 31
GroupPadding(m, sg) == MaskWords(m.cell_count[sg]) .. 31

\* C17: in every state reached after a successful begin by alloc calls and
\* release calls on pointers alloc returned, the bits above cellCount in each
\* pool's last cell mask word and the bits at or above ceil(cellCount / 32) in
\* its group mask are 1 (so no release has cleared one), and alloc returns no
\* cell of index cellCount or more.
C17_PaddingInvariant ==
  Usable =>
    /\ \A sg \in Segments(mem) :
         /\ MaskWords(mem.cell_count[sg]) > 0
              => CellPadding(mem, sg)
                   \subseteq CellMask(mem, sg, MaskWords(mem.cell_count[sg]) - 1)
         /\ GroupPadding(mem, sg) \subseteq GroupMask(mem, sg)
    /\ (call.op = "alloc" /\ call.ret # Null /\ call.sg \in Segments(mem))
         => call.cell < mem.cell_count[call.sg]

\* C18: after a successful begin, for every k with 1 <= k <= largestSize / STEP,
\* lookup entry k - 1 holds the index of the smallest segment whose byte size
\* is at least k * STEP, and alloc(size) with (k - 1) * STEP < size <= k * STEP
\* starts from exactly that segment.
C18_LookupTable ==
  Usable =>
    /\ \A k \in 1 .. (LargestSize(mem) \div SEGMENT_STEP) :
         /\ (k - 1) \in DOMAIN mem.segment_lookup
         /\ mem.segment_lookup[k - 1] \in SmallestFitting(mem, k * SEGMENT_STEP)
    /\ (call.op = "alloc" /\ call.pre = "ready"
          /\ 1 <= call.arg /\ call.arg <= LargestSize(mem))
         => /\ Len(call.path) >= 1
            /\ call.path[1] \in SmallestFitting(mem, call.arg)
            /\ call.path[1] =
                 mem.segment_lookup[((call.arg + SEGMENT_STEP - 1) \div SEGMENT_STEP) - 1]

\* the segment whose cells span address p, and the index of the cell at p
SegmentOf(m, p) ==
  CHOOSE sg \in Segments(m) :
    /\ m.segment_ptr[sg] <= p
    /\ p < m.segment_ptr[sg] + m.segment_sizes[sg] * m.cell_count[sg]
CellOf(m, p) == (p - m.segment_ptr[SegmentOf(m, p)]) \div m.segment_sizes[SegmentOf(m, p)]

\* the bitmap records the cell at p as used
Marked(m, p) == (CellOf(m, p) % 32) \in CellMask(m, SegmentOf(m, p), CellOf(m, p) \div 32)

\* C19: no live cell is handed out twice: alloc returns no address that an
\* earlier alloc returned and that has not been released since, and every
\* pointer still held stays marked used whatever other pointer is released,
\* for every cell count (pools of more than 256 cells included).
C19_NoDoubleHandOut ==
  Usable =>
    /\ (call.op = "alloc" /\ call.ret # Null) => ~call.was_live
    /\ \A p \in live : Marked(mem, p)

\* C20: for every size from 0 up to the largest segment size, on an object a
\* begin with valid descriptors has initialized or on one never initialized,
\* the lookup index alloc
\* computes, ((size + STEP - 1) / STEP) - 1, lies within 0 .. lookupCount - 1
\* of an existing table: alloc reads no element outside the lookup table and
\* reads through no null table pointer.
C20_LookupIndexInRange ==
  (call.op = "alloc" /\ call.pre \in {"fresh", "ready"} /\ (config = <<>> \/ ValidConfig))
  => call.faults \cap {"oob_read", "null_deref"} = {}

====
